---- MODULE Spec2Model ----
(***************************************************************************)
(* Model of score_feed_parser.py: the batch driver main() and the field    *)
(* extractors it composes.                                                 *)
(*                                                                         *)
(* A Python str is a sequence of characters.  A character is a TLA+ string *)
(* of length one, except the backtick and the emoji of the alias table,    *)
(* which are written by name.  A Python list is a sequence.  A call either *)
(* returns a value, Ok(v), or raises an exception, Raise(name).            *)
(***************************************************************************)
EXTENDS Integers, Sequences, FiniteSets, TLC

VARIABLES data, idx, parsed, warnings, attempts, output, writes, pc

vars == <<data, idx, parsed, warnings, attempts, output, writes, pc>>

--------------------------------------------------------------------------
(* Values *)

Backtick == "backtick"
AppleLogo == "U+F8FF"
WindowEmoji == "U+1FA9F"
GlobeEmoji == "U+1F310"
QuestionEmoji == "U+2753"

None == <<"None">>

Ok(v) == [exc |-> "none", val |-> v]
Raise(e) == [exc |-> e, val |-> <<>>]

--------------------------------------------------------------------------
(* Python built-ins used by the parser *)

\* list[i] is defined for -len <= i < len; a negative i counts from the end
InRange(list, i) == -Len(list) <= i /\ i < Len(list)
At(list, i) == IF i < 0 THEN list[Len(list) + i + 1] ELSE list[i + 1]

\* list[n:]
DropFirst(list, n) == SubSeq(list, n + 1, Len(list))
\* str[:-1]
DropLast(s) == SubSeq(s, 1, Len(s) - 1)
\* str[1:-1]
Inner(s) == SubSeq(s, 2, Len(s) - 1)

\* sub in s
Contains(s, sub) ==
    \E i \in 0..(Len(s) - Len(sub)) : SubSeq(s, i + 1, i + Len(sub)) = sub

\* x in list
InList(x, list) == \E i \in 1..Len(list) : list[i] = x

\* characters str.split() treats as whitespace, among those the inputs use
Whitespace == {" ", "\t", "\n"}

\* position of the first element of s that is in set, Len(s)+1 if none
FirstPos(s, set) ==
    IF \E i \in 1..Len(s) : s[i] \in set
    THEN CHOOSE i \in 1..Len(s) : s[i] \in set /\ \A j \in 1..(i - 1) : s[j] \notin set
    ELSE Len(s) + 1

\* str.split(): runs of whitespace separate the tokens, none is empty
RECURSIVE split(_)
split(s) ==
    IF s = <<>> THEN <<>>
    ELSE IF s[1] \in Whitespace THEN split(Tail(s))
    ELSE LET n == FirstPos(s, Whitespace)
         IN  <<SubSeq(s, 1, n - 1)>> \o split(SubSeq(s, n, Len(s)))

\* str.split(sep) for a one-character sep: every occurrence separates
RECURSIVE SplitOn(_, _)
SplitOn(s, sep) ==
    LET n == FirstPos(s, {sep})
    IN  IF n > Len(s) THEN <<s>>
        ELSE <<SubSeq(s, 1, n - 1)>> \o SplitOn(SubSeq(s, n + 1, Len(s)), sep)

\* sep.join(words)
RECURSIVE Join(_, _)
Join(words, sep) ==
    IF words = <<>> THEN <<>>
    ELSE IF Len(words) = 1 THEN words[1]
    ELSE words[1] \o sep \o Join(Tail(words), sep)

\* list.index(x): 0-based position of the first element equal to x
HasIndex(list, x) == InList(x, list)
index(list, x) == FirstPos(list, {x}) - 1

--------------------------------------------------------------------------
(* Literals of the source *)

ERA_1 == <<"(", "e", "r", "a", " ", "1", ")">>
TWO_PLAYERS_MODE ==
    <<"(", "2", " ", "p", "l", "a", "y", "e", "r", "s", " ", "m", "o", "d", "e", ")">>
WORD_AND == <<"a", "n", "d">>
WORD_IN == <<"i", "n">>

platforms == <<
    [name  |-> <<"a", "n", "d", "r", "o", "i", "d">>,
     alias |-> << <<"A", "n", "d", "r", "o", "i", "d">>,
                  <<":", "a", "n", "d", "r", "o", "i", "d", ":">>,
                  <<"<", ":", "a", "n", "d", "r", "o", "i", "d", ":">> >>],
    [name  |-> <<"i", "o", "s">>,
     alias |-> << <<":", "i", "o", "s", ":">>, <<AppleLogo>> >>],
    [name  |-> <<"w", "i", "n", "d", "o", "w", "s">>,
     alias |-> << <<WindowEmoji>> >>],
    [name  |-> <<"w", "e", "b">>,
     alias |-> << <<GlobeEmoji>>, <<"w", "e", "b">> >>],
    [name  |-> <<"u", "n", "k", "n", "o", "w", "n">>,
     alias |-> << <<QuestionEmoji>> >>] >>

--------------------------------------------------------------------------
(* The extractors *)

parse_time(time) == Ok(SplitOn(time, "T"))

\* the body of the loop over [split_content[0], split_content[2]]
strip_username(raw_username) ==
    IF At(raw_username, 0) = Backtick /\ At(raw_username, -1) = Backtick
    THEN Inner(raw_username)
    ELSE raw_username

\* get_usernames dropping one token of the era marker instead of two
get_usernames_drop_one(content) ==
    LET era == IF Contains(content, ERA_1) THEN 1 ELSE 2
        split_content == IF era = 1 THEN DropFirst(split(content), 1)
                                    ELSE split(content)
    IN  IF ~InRange(split_content, 0) \/ ~InRange(split_content, 2)
        THEN Raise("IndexError")
        ELSE LET usernames == <<strip_username(At(split_content, 0)),
                                strip_username(At(split_content, 2))>>
                 one_player == At(split_content, 1) # WORD_AND
                 player2 == IF one_player THEN None ELSE usernames[2]
                 mode == IF Contains(content, TWO_PLAYERS_MODE) THEN 2
                         ELSE IF one_player THEN 1 ELSE 2
             IN  Ok(<<era, mode, usernames[1], player2>>)

get_usernames(content) ==
    LET era == IF Contains(content, ERA_1) THEN 1 ELSE 2
        split_content == IF era = 1 THEN DropFirst(split(content), 2)
                                    ELSE split(content)
    IN  IF ~InRange(split_content, 0) \/ ~InRange(split_content, 2)
        THEN Raise("IndexError")
        ELSE LET usernames == <<strip_username(At(split_content, 0)),
                                strip_username(At(split_content, 2))>>
                 one_player == At(split_content, 1) # WORD_AND
                 player2 == IF one_player THEN None ELSE usernames[2]
                 mode == IF Contains(content, TWO_PLAYERS_MODE) THEN 2
                         ELSE IF one_player THEN 1 ELSE 2
             IN  Ok(<<era, mode, usernames[1], player2>>)

\* the lookup loop over platforms.items(); platform_name is bound only by a hit
platform_lookup(platform) ==
    LET hits == {k \in 1..Len(platforms) : InList(platform, platforms[k].alias)}
    IN  IF hits = {} THEN Raise("UnboundLocalError")
        ELSE Ok(platforms[CHOOSE k \in hits : \A h \in hits : k <= h].name)

get_country_and_platform(content) ==
    IF ~InRange(content, -1) THEN Raise("IndexError")
    ELSE IF At(content, -1) # ")" THEN Ok(<<None, None>>)
    ELSE LET pieces == SplitOn(DropLast(content), "(")
             nospace == SelectSeq(At(pieces, -1), LAMBDA x : x # " ")
             segs == SplitOn(nospace, "-")
         IN  IF Len(segs) = 1 THEN Ok(<<segs[1], None>>)
             ELSE IF Len(segs) # 2 THEN Raise("ValueError")
             ELSE LET platform_name == platform_lookup(segs[2])
                  IN  IF platform_name.exc # "none" THEN platform_name
                      ELSE Ok(<<segs[1], platform_name.val>>)

\* the words collected by the loop of get_level: up to the first one starting "("
RECURSIVE level_words(_)
level_words(words) ==
    IF words = <<>> THEN <<>>
    ELSE IF At(words[1], 0) = "(" THEN <<>>
    ELSE <<words[1]>> \o level_words(Tail(words))

get_level(content) ==
    LET split_content == split(content)
    IN  IF ~HasIndex(split_content, WORD_IN) THEN Raise("ValueError")
        ELSE LET level_name_index == index(split_content, WORD_IN) + 1
                 level_name == Join(level_words(DropFirst(split_content,
                                                          level_name_index)), <<" ">>)
             IN  IF ~InRange(level_name, 0) THEN Raise("IndexError")
                 ELSE IF At(level_name, 0) = Backtick /\ At(level_name, -1) = Backtick
                 THEN Ok(Inner(level_name))
                 ELSE Ok(level_name)

get_score(content) ==
    LET split_content == split(content)
    IN  IF ~HasIndex(split_content, WORD_IN) THEN Raise("ValueError")
        ELSE LET level_score_index == index(split_content, WORD_IN) - 1
             IN  IF ~InRange(split_content, level_score_index)
                 THEN Raise("IndexError")
                 ELSE Ok(At(split_content, level_score_index))

\* content.split("\n")[-1]
last_line(content) == At(SplitOn(content, "\n"), -1)

\* parse_content reading the annotation whatever the mode
parse_content_any_mode(raw) ==
    LET content == last_line(raw)
        names == get_usernames(content)
    IN  IF names.exc # "none" THEN names
        ELSE LET cp == get_country_and_platform(content)
             IN  IF cp.exc # "none" THEN cp
                 ELSE LET level == get_level(content)
                      IN  IF level.exc # "none" THEN level
                          ELSE LET score == get_score(content)
                               IN  IF score.exc # "none" THEN score
                                   ELSE Ok(names.val \o <<level.val, score.val>>
                                           \o cp.val)

parse_content(raw) ==
    LET content == last_line(raw)
        names == get_usernames(content)
    IN  IF names.exc # "none" THEN names
        ELSE LET cp == IF names.val[2] = 1 THEN get_country_and_platform(content)
                                           ELSE Ok(<<None, None>>)
             IN  IF cp.exc # "none" THEN cp
                 ELSE LET level == get_level(content)
                      IN  IF level.exc # "none" THEN level
                          ELSE LET score == get_score(content)
                               IN  IF score.exc # "none" THEN score
                                   ELSE Ok(names.val \o <<level.val, score.val>>
                                           \o cp.val)

parse_row(row) ==
    LET parsed_time == parse_time(row.time)
        parsed_content == parse_content(row.content)
    IN  IF parsed_time.exc # "none" THEN parsed_time
        ELSE IF parsed_content.exc # "none" THEN parsed_content
        ELSE Ok(parsed_time.val \o parsed_content.val \o <<row.reactions>>)

--------------------------------------------------------------------------
(* Inputs *)

MaxRows == 3
MaxTokens == 4

SP == <<" ">>
W_A == <<"A">>
W_B == <<Backtick, "B", Backtick>>
T_1T2 == <<"1", "T", "2">>
T_12 == <<"1", "2">>
T_1T2T3 == <<"1", "T", "2", "T", "3">>

\* tokens a sentence is made of
Vocab == {W_A, W_B, WORD_AND, WORD_IN}

\* what precedes the tokens: nothing, the era marker, the era marker with two
\* spaces inside, a decorative first line
Markers == {<<>>,
            ERA_1 \o SP,
            <<"(", "e", "r", "a", " ", " ", "1", ")", " ">>,
            <<"h", "i", "\n">>}

\* what follows the tokens: nothing, the legacy marker, annotations
Suffixes == {<<>>,
             SP \o TWO_PLAYERS_MODE,
             <<" ", "(", "F", "R", ")">>,
             <<" ", "(", "F", "R", " ", "-", " ", "w", "e", "b", ")">>,
             <<" ", "(", "F", "R", "-", "x", "b", "o", "x", ")">>,
             <<" ", "(", "a", "-", "b", "-", "c", ")">>}

TokenSeqs == UNION {[1..n -> Vocab] : n \in 0..MaxTokens}

Contents == {m \o Join(toks, SP) \o suf :
                 m \in Markers, toks \in TokenSeqs, suf \in Suffixes}

Row(t, c, r) == [time |-> t, content |-> c, reactions |-> r]

\* rows of a batch: two that parse, one without `in`, one whose timestamp has
\* no T, one whose timestamp has two, one with an unknown platform
RowSamples == {
    Row(T_1T2, Join(<<W_A, WORD_AND, W_B, WORD_IN, W_A>>, SP), <<"0">>),
    Row(T_1T2, Join(<<W_A, W_A, W_A>>, SP), <<"1">>),
    Row(T_12, Join(<<W_B, W_A, WORD_IN, W_A>>, SP)
              \o <<" ", "(", "F", "R", " ", "-", " ", "w", "e", "b", ")">>, <<"2">>),
    Row(T_1T2T3, ERA_1 \o SP \o Join(<<W_A, W_A, WORD_IN, W_B>>, SP), <<"3">>),
    Row(T_1T2, Join(<<W_A, W_A, WORD_IN, W_A>>, SP)
               \o <<" ", "(", "F", "R", "-", "x", "b", "o", "x", ")">>, <<"4">>),
    Row(T_1T2, <<"h", "i", "\n">> \o Join(<<W_A, W_A, WORD_IN, W_B, W_A>>, SP),
        <<"5">>) }

--------------------------------------------------------------------------
(* main *)

\* state once get_data has returned and parsed = [] has run
Loaded(rows) ==
    /\ data = rows
    /\ idx = 0
    /\ parsed = <<>>
    /\ warnings = <<>>
    /\ attempts = <<>>
    /\ output = <<>>
    /\ writes = 0
    /\ pc = "loop"

Init == \E rows \in UNION {[1..n -> RowSamples] : n \in 0..MaxRows} : Loaded(rows)

InitParse == \E c \in Contents : Loaded(<<Row(T_1T2, c, <<"0">>)>>)

\* ParseRowAppend putting the record at the front of parsed
ParseRowAppend_front ==
    /\ pc = "loop"
    /\ idx < Len(data)
    /\ LET r == parse_row(data[idx + 1])
       IN  /\ r.exc = "none"
           /\ parsed' = <<r.val>> \o parsed
    /\ idx' = idx + 1
    /\ attempts' = Append(attempts, idx + 1)
    /\ UNCHANGED <<data, warnings, output, writes, pc>>

\* one iteration of the loop, parse_row returned: parsed.append(...)
ParseRowAppend ==
    /\ pc = "loop"
    /\ idx < Len(data)
    /\ LET r == parse_row(data[idx + 1])
       IN  /\ r.exc = "none"
           /\ parsed' = Append(parsed, r.val)
    /\ idx' = idx + 1
    /\ attempts' = Append(attempts, idx + 1)
    /\ UNCHANGED <<data, warnings, output, writes, pc>>

\* one iteration of the loop, parse_row raised: logger.warning(e)
ParseRowWarn ==
    /\ pc = "loop"
    /\ idx < Len(data)
    /\ LET r == parse_row(data[idx + 1])
       IN  /\ r.exc # "none"
           /\ warnings' = Append(warnings, r.exc)
    /\ idx' = idx + 1
    /\ attempts' = Append(attempts, idx + 1)
    /\ UNCHANGED <<data, parsed, output, writes, pc>>

\* WriteParsed inside the loop body: the write does not wait for the last row
WriteParsed_in_loop ==
    /\ pc = "loop"
    /\ output' = parsed
    /\ writes' = writes + 1
    /\ pc' = "done"
    /\ UNCHANGED <<data, idx, parsed, warnings, attempts>>

\* the loop is exhausted: write_parsed("output.csv", parsed), main returns
WriteParsed ==
    /\ pc = "loop"
    /\ idx = Len(data)
    /\ output' = parsed
    /\ writes' = writes + 1
    /\ pc' = "done"
    /\ UNCHANGED <<data, idx, parsed, warnings, attempts>>

Next == ParseRowAppend \/ ParseRowWarn \/ WriteParsed

Spec == Init /\ [][Next]_vars

\* the for statement takes the next row of data
NextRow == pc = "loop" /\ idx < Len(data) /\ idx' = idx + 1

\* main is sequential code that nothing suspends: while rows remain the loop
\* takes the next one (parse_row returns or raises, so one of ParseRowAppend
\* and ParseRowWarn is the step), and once none remains the write runs
FairSpec == Spec /\ WF_idx(NextRow) /\ WF_vars(WriteParsed)

SpecParse == InitParse /\ [][Next]_vars

--------------------------------------------------------------------------
(* Properties *)

\* the sentence get_usernames, get_level, ... are given for row k
Sentence(k) == last_line(data[k].content)

\* a name with its backticks removed when it begins and ends with one
Unquoted(s) ==
    IF s # <<>> /\ s[1] = Backtick /\ s[Len(s)] = Backtick THEN Inner(s) ELSE s

\* the records of the rows whose parse_row returns, in the order of the rows
RECURSIVE RecordsOf(_)
RecordsOf(rows) ==
    IF rows = <<>> THEN <<>>
    ELSE LET r == parse_row(Head(rows))
         IN  (IF r.exc = "none" THEN <<r.val>> ELSE <<>>) \o RecordsOf(Tail(rows))

\* C1: the list main hands to write_parsed is exactly the records of the rows
\* whose parse_row does not raise, in input order; a failing row contributes
\* nothing and changes no other row's record.
C1_FailureIsolation ==
    /\ parsed = RecordsOf(SubSeq(data, 1, idx))
    /\ pc = "done" => output = RecordsOf(data)

\* C1 witness: a batch of three whose middle row has no `in` and is dropped
C1_Witness ==
    /\ pc = "done"
    /\ Len(data) = 3
    /\ ~InList(WORD_IN, split(Sentence(2)))
    /\ parse_row(data[2]).exc # "none"
    /\ parse_row(data[1]).exc = "none"
    /\ parse_row(data[3]).exc = "none"
    /\ data[1] # data[3]
    /\ output = <<parse_row(data[1]).val, parse_row(data[3]).val>>

\* C2: in every record parse_content returns, player2 is present iff mode = 2.
C2_Player2IffModeTwo ==
    \A k \in 1..idx :
        LET r == parse_content(data[k].content)
        IN  r.exc = "none" => ((r.val[4] # None) <=> (r.val[2] = 2))

\* the dash-separated segments of the trailing annotation of sentence c
Annotation(c) ==
    LET pieces == SplitOn(DropLast(c), "(")
    IN  SplitOn(SelectSeq(pieces[Len(pieces)], LAMBDA x : x # " "), "-")

\* the first canonical name whose aliases hold the token, else the token
CanonicalOrRaw(tok) ==
    LET hits == {k \in 1..Len(platforms) : InList(tok, platforms[k].alias)}
    IN  IF hits = {} THEN tok
        ELSE platforms[CHOOSE k \in hits : \A h \in hits : k <= h].name

\* C3: for a mode-1 sentence ending in ")" with a two-segment annotation,
\* get_country_and_platform returns the first canonical name whose alias list
\* holds the second segment, and the raw segment when none does; the
\* platform does not cost the row its record.
C3_PlatformCanonicalOrRaw ==
    \A k \in 1..idx :
        LET c == Sentence(k)
            u == get_usernames(c)
        IN  (/\ u.exc = "none"
             /\ u.val[2] = 1
             /\ c[Len(c)] = ")"
             /\ Len(Annotation(c)) = 2)
            => /\ get_country_and_platform(c)
                    = Ok(<<Annotation(c)[1], CanonicalOrRaw(Annotation(c)[2])>>)
               /\ (get_level(c).exc = "none" /\ get_score(c).exc = "none")
                    => parse_content(data[k].content).exc = "none"

\* C4: in every record parse_content returns, country and platform are both
\* None unless mode = 1 and the last character of the final line is ")".
C4_AnnotationOnlyModeOne ==
    \A k \in 1..idx :
        LET c == Sentence(k)
            r == parse_content(data[k].content)
        IN  r.exc = "none" =>
              ((r.val[7] # None \/ r.val[8] # None)
                  => (r.val[2] = 1 /\ c # <<>> /\ c[Len(c)] = ")"))

\* C4 witness: a record of a sentence forced to mode 2 by "(2 players mode)",
\* which ends in ")", was emitted with country and platform None
C4_Witness ==
    /\ idx = 1
    /\ Len(parsed) = 1
    /\ Contains(Sentence(1), TWO_PLAYERS_MODE)
    /\ Sentence(1)[Len(Sentence(1))] = ")"
    /\ parse_content(data[1].content).val[2] = 2
    /\ parse_content(data[1].content).val[7] = None
    /\ parse_content(data[1].content).val[8] = None

MARK_ERA == <<"(", "e", "r", "a">>
MARK_1 == <<"1", ")">>

\* the first two tokens are the era marker and three more follow
MarkerFirst(toks) == Len(toks) >= 5 /\ toks[1] = MARK_ERA /\ toks[2] = MARK_1

\* C5 as stated: whenever the first two tokens are `(era` `1)` and three more
\* follow, get_usernames returns era 1 and the unquoted third token as
\* player1; a sentence without the substring "(era 1)" gets era 2 and the
\* unquoted first token.
C5_EraFromMarkerTokens ==
    \A k \in 1..idx :
        LET c == Sentence(k)
            toks == split(c)
            u == get_usernames(c)
        IN  /\ MarkerFirst(toks)
                => (u.exc = "none" /\ u.val[1] = 1 /\ u.val[3] = Unquoted(toks[3]))
            /\ (~Contains(c, ERA_1) /\ u.exc = "none")
                => (u.val[1] = 2 /\ u.val[3] = Unquoted(toks[1]))

\* C5 amended: the first half holds when the sentence also contains the
\* literal substring "(era 1)"; the second half for sentences of at least
\* three tokens, for which get_usernames returns.
C5_EraFromSubstring ==
    \A k \in 1..idx :
        LET c == Sentence(k)
            toks == split(c)
            u == get_usernames(c)
        IN  /\ (MarkerFirst(toks) /\ Contains(c, ERA_1))
                => (u.exc = "none" /\ u.val[1] = 1 /\ u.val[3] = Unquoted(toks[3]))
            /\ (~Contains(c, ERA_1) /\ Len(toks) >= 3)
                => (u.exc = "none" /\ u.val[1] = 2 /\ u.val[3] = Unquoted(toks[1]))

\* C5 witness: an era-1 sentence with a quoted player was parsed into a record
C5_Witness ==
    /\ idx = 1
    /\ Len(parsed) = 1
    /\ MarkerFirst(split(Sentence(1)))
    /\ Contains(Sentence(1), ERA_1)
    /\ split(Sentence(1))[3] = W_B
    /\ parsed[1][3] = 1
    /\ parsed[1][5] = <<"B">>

\* C6: a timestamp with a T is split into exactly the text before the first
\* T and the text after it, so the row's record has 11 columns.
C6_TimeSplitsInTwo ==
    \A k \in 1..idx :
        LET t == data[k].time
            n == FirstPos(t, {"T"})
        IN  n <= Len(t) =>
              /\ parse_time(t) = Ok(<<SubSeq(t, 1, n - 1), SubSeq(t, n + 1, Len(t))>>)
              /\ parse_row(data[k]).exc = "none" => Len(parse_row(data[k]).val) = 11

\* C7: a row whose timestamp has no T makes parse_row raise, and the driver
\* emits no record for it.
C7_NoSeparatorRaises ==
    \A k \in 1..idx :
        ~InList("T", data[k].time)
            => /\ parse_row(data[k]).exc # "none"
               /\ Len(parsed) < idx

\* C8: get_score returns the token before the first token `in`; it fails
\* when there is no `in` and when `in` is the first token.
C8_ScoreBeforeIn ==
    \A k \in 1..idx :
        LET c == Sentence(k)
            toks == split(c)
            n == FirstPos(toks, {WORD_IN})
        IN  IF n > Len(toks) \/ n = 1
            THEN get_score(c).exc # "none"
            ELSE get_score(c) = Ok(toks[n - 1])

\* C9: with a token `in`, get_level returns the tokens after the first `in`
\* up to the first one beginning with "(", joined by single spaces and
\* unquoted; with no token collected the level is empty, not a failure.
C9_LevelAfterIn ==
    \A k \in 1..idx :
        LET c == Sentence(k)
            toks == split(c)
            n == FirstPos(toks, {WORD_IN})
            rest == SubSeq(toks, n + 1, Len(toks))
            stop == FirstPos(rest, {rest[i] : i \in {j \in 1..Len(rest) : rest[j][1] = "("}})
        IN  n <= Len(toks)
              => get_level(c) = Ok(Unquoted(Join(SubSeq(rest, 1, stop - 1), SP)))

\* C10: every row is attempted once, in input order; write_parsed runs once,
\* only after the last row was attempted, nothing is written before; and
\* the run reaches the write however many rows fail.
C10_WriteOnceAfterAllRows ==
    /\ [](/\ \A k \in 1..Len(attempts) : attempts[k] = k
          /\ Len(attempts) <= Len(data)
          /\ Len(parsed) + Len(warnings) = Len(attempts)
          /\ writes <= 1
          /\ writes = 0 => output = <<>>
          /\ writes = 1 => (Len(attempts) = Len(data) /\ pc = "done"))
    /\ <>(writes = 1 /\ pc = "done")

\* C10 witness: a batch of three rows that all failed reached the write
C10_Witness ==
    /\ pc = "done"
    /\ writes = 1
    /\ Len(data) = 3
    /\ attempts = <<1, 2, 3>>
    /\ Len(warnings) = 3
    /\ output = <<>>

====
